---- MODULE Spec2Model ----
(***************************************************************************)
(* The training/evaluation driver of run_mujoco.py (function main) as a    *)
(* state machine.  One run of the program is one behaviour: the command    *)
(* line (args), the Agent implementation and the file system are chosen in *)
(* Init, and every later step is a step of main().                         *)
(*                                                                         *)
(* Returns are floats in the program; the model draws them from integers   *)
(* and keeps every quotient as an exact fraction in lowest terms.          *)
(***************************************************************************)
EXTENDS Integers, Sequences, FiniteSets, TLC

VARIABLES
    args,                 \* the parsed command line (line 26), never assigned again
    impl,                 \* the Agent/Environment implementation behind agent.run,
                          \* and which call of a collaborator raises, if any
    fs,                   \* the state of ./tests and ./tests/save_model on disk
    pc,                   \* position of main()
    error,                \* the exception that ended the run, "none" while it runs
    env,                  \* the gym environment: "none", "made", "seeded"
    agent,                \* the Agent object (mode flag, rollouts served so far)
    i,                    \* the for loop's index (line 100), -1 before the loop
    total_num_steps,
    train_sum_returns,
    train_num_episodes,
    train_step_count,
    train_step_length,
    train_episode_return,
    train_average_return,
    eval_sum_returns,
    eval_num_episodes,
    eval_k,               \* how many turns `for _ in range(10)` has taken
    eval_step_length,
    eval_episode_return,
    eval_average_return,
    writer,               \* the add_scalar calls received by the SummaryWriter, in order
    report,               \* the last progress report printed (lines 143-152)
    saved,                \* the checkpoint files written by torch.save, in order
    hist                  \* history of the run (not program state)

locals == <<i, total_num_steps, train_sum_returns, train_num_episodes,
            train_step_count, train_step_length, train_episode_return,
            train_average_return, eval_sum_returns, eval_num_episodes, eval_k,
            eval_step_length, eval_episode_return, eval_average_return>>

vars == <<args, impl, fs, pc, error, env, agent, locals, writer, report, saved, hist>>

----------------------------------------------------------------------------
(* Bounds of the model *)

MaxIterations == 2      \* --iterations of the short runs ranges over 0..MaxIterations
MaxBudget == 2          \* --steps_per_iter of the short runs ranges up to MaxBudget
MaxLen == 2             \* --max_step of the short runs
PatLen == 2             \* period of the agent's episode length pattern
MaxEpisodes == 60       \* training rollouts after which a run is no longer followed
MaxFaultAt == 14        \* a collaborator's failing call is one of its first MaxFaultAt + 1

(* Program constants *)

EvalEpisodes == 10      \* for _ in range(10)
SavePeriod == 20        \* if (i + 1) % 20 == 0

----------------------------------------------------------------------------
(* Fractions: [n, d] with d > 0 in lowest terms; d = 0 is an unbound name. *)

Abs(x) == IF x < 0 THEN -x ELSE x

RECURSIVE GCD(_, _)
GCD(a, b) == IF b = 0 THEN a ELSE GCD(b, a % b)

Rat(n, d) == LET g == GCD(Abs(n), d) IN [n |-> n \div g, d |-> d \div g]

Unbound == [n |-> 0, d |-> 0]

Zero == [n |-> 0, d |-> 1]

\* sum_returns / num_episodes if num_episodes > 0 else 0.0
AverageReturn(sum_returns, num_episodes) ==
    IF num_episodes > 0 THEN Rat(sum_returns, num_episodes) ELSE Zero

\* round(x, 2), in hundredths; a tie goes to the even neighbour
Round2(x) ==
    LET q == (100 * x.n) \div x.d
        r == (100 * x.n) % x.d
    IN  IF 2 * r < x.d THEN q
        ELSE IF 2 * r > x.d THEN q + 1
        ELSE IF q % 2 = 0 THEN q ELSE q + 1

----------------------------------------------------------------------------
(* The Agent capability.  agent.run(max_step) plays one whole episode and   *)
(* returns (step_length, episode_return).  The implementation is            *)
(* deterministic: the k-th rollout it serves has the k-th length and return *)
(* of its (periodic) patterns, and an episode never exceeds max_step steps. *)

KnownAlgos == {"vpg", "npg", "trpo", "ppo", "ddpg", "td3", "sac", "asac", "tac", "atac"}

NoAgent == [built |-> FALSE, eval_mode |-> FALSE, calls |-> 0, run_mode |-> "none"]

Min(a, b) == IF a < b THEN a ELSE b

Nth(pattern, k) == pattern[(k % Len(pattern)) + 1]

AgentRun(ag, max_step) ==
    [step_length    |-> Min(Nth(impl.lens, ag.calls), max_step),
     episode_return |-> Nth(impl.rets, ag.calls)]

\* the Agent after serving one rollout: it saw its own mode flag
AgentAfterRun(ag) ==
    [ag EXCEPT !.calls = @ + 1,
               !.run_mode = IF ag.eval_mode THEN "eval" ELSE "train"]

\* agent.alpha, the entropy temperature (asac, atac)
AgentAlpha == Rat(1, 5)

----------------------------------------------------------------------------
(* The runs that are followed *)

\* no call of a collaborator raises
NoFault == [op |-> "none", at |-> 0]

Patterns(n, S) == UNION {[1..k -> S] : k \in 1..n}

ReturnPatterns == {<<10, 20>>, <<-5>>, <<150, 0, 7>>}

\* short runs: every small command line against every small agent
ShortRuns ==
    {[a |-> [iterations |-> it, steps_per_iter |-> b, max_step |-> MaxLen,
             tensorboard |-> tb, algo |-> al],
      m |-> [lens |-> ls, rets |-> rs, eval_mode0 |-> FALSE, fault |-> NoFault],
      f |-> "dir"] :
        it \in 0..MaxIterations, b \in {-3, -1} \cup (0..MaxBudget),
        tb \in BOOLEAN, al \in {"atac", "ppo"},
        ls \in Patterns(PatLen, 0..MaxLen), rs \in ReturnPatterns}

\* long runs: enough iterations to pass the checkpoint period twice
LongRuns ==
    {[a |-> [iterations |-> it, steps_per_iter |-> 0, max_step |-> 1,
             tensorboard |-> tb, algo |-> "sac"],
      m |-> [lens |-> <<1>>, rets |-> <<10, 20, 60>>, eval_mode0 |-> e, fault |-> NoFault],
      f |-> f] :
        it \in {39, 40}, tb \in BOOLEAN, e \in BOOLEAN,
        f \in {"no_tests", "no_dir", "dir"}}

\* the defaults of the command line with episodes that all last max_step steps
DefaultRuns ==
    {[a |-> [iterations |-> 1, steps_per_iter |-> 5000, max_step |-> 200,
             tensorboard |-> TRUE, algo |-> al],
      m |-> [lens |-> <<200>>, rets |-> rs, eval_mode0 |-> FALSE, fault |-> NoFault],
      f |-> "no_dir"] :
        al \in {"atac", "nosuch"}, rs \in {<<10, 20>>, <<150, 0, 7>>}}

\* runs in which one call of agent.run, writer.add_scalar or torch.save raises
FaultyRuns ==
    {[a |-> [iterations |-> 2, steps_per_iter |-> 1, max_step |-> 2,
             tensorboard |-> TRUE, algo |-> al],
      m |-> [lens |-> ls, rets |-> <<10, 20>>, eval_mode0 |-> FALSE,
             fault |-> [op |-> op, at |-> at]],
      f |-> "dir"] :
        al \in {"atac", "ppo"}, ls \in {<<1>>, <<2, 1>>},
        op \in {"run", "add_scalar"}, at \in 0..MaxFaultAt}
    \cup
    {[a |-> [iterations |-> 40, steps_per_iter |-> 0, max_step |-> 1,
             tensorboard |-> FALSE, algo |-> "sac"],
      m |-> [lens |-> <<1>>, rets |-> <<10, 20, 60>>, eval_mode0 |-> FALSE,
             fault |-> [op |-> "save", at |-> at]],
      f |-> "no_dir"] :
        at \in {0, 1}}

Runs == ShortRuns \cup LongRuns \cup DefaultRuns \cup FaultyRuns

NoReport == [i |-> -1, steps |-> 0, episodes |-> 0, tr |-> 0, eval_episodes |-> 0, er |-> 0]

NoHist == [train_rollouts |-> 0,      \* rollouts of the current training phase
           train_phases |-> 0,        \* training phases left so far
           eval_phases |-> 0,         \* evaluation phases completed so far
           eval_returns |-> <<>>,     \* returns of the current iteration's evaluation rollouts
           steps_at_train_end |-> 0,  \* total_num_steps when the last training phase was left
           zero_length |-> FALSE,     \* some training rollout had step length 0
           train_lengths |-> <<>>,    \* step lengths of the training rollouts of the run
           train_returns |-> <<>>,    \* returns of the training rollouts of the run
           faulted |-> FALSE]         \* a call of a collaborator has raised

Init ==
    /\ \E run \in Runs : args = run.a /\ impl = run.m /\ fs = run.f
    /\ pc = "start"
    /\ error = "none"
    /\ env = "none"
    /\ agent = NoAgent
    /\ i = -1
    /\ total_num_steps = 0
    /\ train_sum_returns = 0
    /\ train_num_episodes = 0
    /\ train_step_count = 0
    /\ train_step_length = 0
    /\ train_episode_return = Unbound
    /\ train_average_return = Unbound
    /\ eval_sum_returns = 0
    /\ eval_num_episodes = 0
    /\ eval_k = 0
    /\ eval_step_length = 0
    /\ eval_episode_return = Unbound
    /\ eval_average_return = Unbound
    /\ writer = <<>>
    /\ report = NoReport
    /\ saved = <<>>
    /\ hist = NoHist

----------------------------------------------------------------------------
(* main(), lines 51-166 *)

Raise(exception) ==
    /\ pc' = "raised"
    /\ error' = exception

Scalar(tag, value, step) == [tag |-> tag, value |-> value, step |-> step]

\* the next call of agent.run raises
RunRaises == impl.fault.op = "run" /\ impl.fault.at = agent.calls

\* one of these add_scalar calls raises (the writer has served Len(writer) calls)
SinkRaises(scalars) ==
    /\ impl.fault.op = "add_scalar"
    /\ impl.fault.at >= Len(writer)
    /\ impl.fault.at < Len(writer) + Len(scalars)

\* the scalars the writer receives before the call that raises
Accepted(scalars) ==
    IF SinkRaises(scalars)
      THEN SubSeq(scalars, 1, impl.fault.at - Len(writer))
      ELSE scalars

\* the next call of torch.save raises
SaveRaises == impl.fault.op = "save" /\ impl.fault.at = Len(saved)

\* an except clause around the call that lets main() go on
ContinueOrSwallow(raises, exception, next) ==
    /\ pc' = next
    /\ error' = error

\* main() has no try statement: an exception of a collaborator leaves it
ContinueOrRaise(raises, exception, next) ==
    IF raises
      THEN Raise(exception)
      ELSE /\ pc' = next
           /\ error' = error

\* lines 29-48 and 54-97: the import chosen by --algo, the environment, the
\* seeds, the Agent, the SummaryWriter and the counters of the run
Setup ==
    /\ pc = "start"
    /\ env' = "seeded"
    /\ IF args.algo \in KnownAlgos
         THEN /\ agent' = [NoAgent EXCEPT !.built = TRUE, !.eval_mode = impl.eval_mode0]
              /\ pc' = "for"
              /\ error' = error
         ELSE /\ agent' = agent
              /\ Raise("NameError")
    /\ UNCHANGED <<args, impl, fs, locals, writer, report, saved, hist>>

\* line 100 as range(args.iterations + 1)
ForContinuesInclusive == i + 1 <= args.iterations

\* line 100: range(args.iterations) has a next index
ForContinues == i + 1 < args.iterations

\* lines 95 and 97 moved into the loop, next to line 101
ForNextResetsTotals ==
    /\ pc = "for"
    /\ IF ForContinues
         THEN /\ i' = i + 1
              /\ train_step_count' = 0
              /\ total_num_steps' = 0
              /\ train_num_episodes' = 0
              /\ pc' = "while"
              /\ hist' = [hist EXCEPT !.train_rollouts = 0, !.eval_returns = <<>>]
         ELSE /\ pc' = "done"
              /\ UNCHANGED <<i, train_step_count, total_num_steps, train_num_episodes, hist>>
    /\ UNCHANGED <<args, impl, fs, error, env, agent,
                   train_sum_returns, train_step_length,
                   train_episode_return, train_average_return, eval_sum_returns,
                   eval_num_episodes, eval_k, eval_step_length, eval_episode_return,
                   eval_average_return, writer, report, saved>>

\* lines 96 and 97 moved into the loop, next to line 101
ForNextResetsAverage ==
    /\ pc = "for"
    /\ IF ForContinues
         THEN /\ i' = i + 1
              /\ train_step_count' = 0
              /\ train_sum_returns' = 0
              /\ train_num_episodes' = 0
              /\ pc' = "while"
              /\ hist' = [hist EXCEPT !.train_rollouts = 0, !.eval_returns = <<>>]
         ELSE /\ pc' = "done"
              /\ UNCHANGED <<i, train_step_count, train_sum_returns, train_num_episodes, hist>>
    /\ UNCHANGED <<args, impl, fs, error, env, agent, total_num_steps,
                   train_step_length,
                   train_episode_return, train_average_return, eval_sum_returns,
                   eval_num_episodes, eval_k, eval_step_length, eval_episode_return,
                   eval_average_return, writer, report, saved>>

\* line 100: for i in range(args.iterations); line 101 when the loop goes on
ForNext ==
    /\ pc = "for"
    /\ IF ForContinues
         THEN /\ i' = i + 1
              /\ train_step_count' = 0
              /\ pc' = "while"
              /\ hist' = [hist EXCEPT !.train_rollouts = 0, !.eval_returns = <<>>]
         ELSE /\ pc' = "done"
              /\ UNCHANGED <<i, train_step_count, hist>>
    /\ UNCHANGED <<args, impl, fs, error, env, agent, total_num_steps,
                   train_sum_returns, train_num_episodes, train_step_length,
                   train_episode_return, train_average_return, eval_sum_returns,
                   eval_num_episodes, eval_k, eval_step_length, eval_episode_return,
                   eval_average_return, writer, report, saved>>

\* line 102 with < for <=
TrainContinuesStrict == train_step_count < args.steps_per_iter

\* line 102 testing the counter of the whole run
TrainContinuesOnTotal == total_num_steps <= args.steps_per_iter

\* line 102: while train_step_count <= args.steps_per_iter
TrainContinues == train_step_count <= args.steps_per_iter

\* lines 116-121 with line 119 logging the average again
TrainScalarsAverageTwice(average, episode_return, step) ==
    IF args.tensorboard
      THEN <<Scalar("Train/AverageReturns", average, step),
             Scalar("Train/EpisodeReturns", average, step)>>
           \o (IF args.algo = "asac" \/ args.algo = "atac"
                 THEN <<Scalar("Train/Alpha", AgentAlpha, step)>>
                 ELSE <<>>)
      ELSE <<>>

\* lines 116-121 keyed by the counter of the iteration
TrainScalarsKeyedByCount(average, episode_return, step) ==
    IF args.tensorboard
      THEN <<Scalar("Train/AverageReturns", average, train_step_count'),
             Scalar("Train/EpisodeReturns", episode_return, train_step_count')>>
           \o (IF args.algo = "asac" \/ args.algo = "atac"
                 THEN <<Scalar("Train/Alpha", AgentAlpha, train_step_count')>>
                 ELSE <<>>)
      ELSE <<>>

\* lines 116-121: the metrics of one training rollout
TrainScalars(average, episode_return, step) ==
    IF args.tensorboard
      THEN <<Scalar("Train/AverageReturns", average, step),
             Scalar("Train/EpisodeReturns", episode_return, step)>>
           \o (IF args.algo = "asac" \/ args.algo = "atac"
                 THEN <<Scalar("Train/Alpha", AgentAlpha, step)>>
                 ELSE <<>>)
      ELSE <<>>

\* lines 102-121: one turn of the training loop
TrainRollout ==
    /\ pc = "while"
    /\ TrainContinues
    /\ train_num_episodes < MaxEpisodes
    /\ ~RunRaises
    /\ LET training == [agent EXCEPT !.eval_mode = FALSE]
           result == AgentRun(training, args.max_step)
           steps == total_num_steps + result.step_length
           sum_returns == train_sum_returns + result.episode_return
           episodes == train_num_episodes + 1
           average == AverageReturn(sum_returns, episodes)
           scalars == TrainScalars(average, Rat(result.episode_return, 1), steps)
       IN  /\ agent' = AgentAfterRun(training)
           /\ train_step_length' = result.step_length
           /\ train_episode_return' = Rat(result.episode_return, 1)
           /\ total_num_steps' = steps
           /\ train_step_count' = train_step_count + result.step_length
           /\ train_sum_returns' = sum_returns
           /\ train_num_episodes' = episodes
           /\ train_average_return' = average
           /\ writer' = writer \o Accepted(scalars)
           /\ ContinueOrRaise(SinkRaises(scalars), "SinkError", "while")
           /\ hist' = [hist EXCEPT !.train_rollouts = @ + 1,
                                   !.zero_length = @ \/ result.step_length = 0,
                                   !.train_lengths = Append(@, result.step_length),
                                   !.train_returns = Append(@, result.episode_return),
                                   !.faulted = SinkRaises(scalars)]
    /\ UNCHANGED <<args, impl, fs, env, i, eval_sum_returns,
                   eval_num_episodes, eval_k, eval_step_length, eval_episode_return,
                   eval_average_return, report, saved>>

\* line 107 or line 131: the call of agent.run that raises
RolloutRaises ==
    /\ \/ pc = "while" /\ TrainContinues
       \/ pc = "eval" /\ eval_k < EvalEpisodes
    /\ RunRaises
    /\ agent' = IF pc = "while" THEN [agent EXCEPT !.eval_mode = FALSE] ELSE agent
    /\ ContinueOrRaise(TRUE, "AgentError", pc)
    /\ hist' = [hist EXCEPT !.faulted = TRUE]
    /\ UNCHANGED <<args, impl, fs, env, locals, writer, report, saved>>

\* lines 124-127 without lines 126-127
EvalBeginKeepsStatistics ==
    /\ pc = "while"
    /\ ~TrainContinues
    /\ agent' = [agent EXCEPT !.eval_mode = TRUE]
    /\ eval_k' = 0
    /\ pc' = "eval"
    /\ hist' = [hist EXCEPT !.train_phases = @ + 1,
                            !.steps_at_train_end = total_num_steps]
    /\ UNCHANGED <<args, impl, fs, error, env, i, total_num_steps, train_sum_returns,
                   train_num_episodes, train_step_count, train_step_length,
                   train_episode_return, train_average_return, eval_sum_returns,
                   eval_num_episodes, eval_step_length,
                   eval_episode_return, eval_average_return, writer, report, saved>>

\* lines 124-127 without line 124
EvalBeginKeepsMode ==
    /\ pc = "while"
    /\ ~TrainContinues
    /\ eval_sum_returns' = 0
    /\ eval_num_episodes' = 0
    /\ eval_k' = 0
    /\ pc' = "eval"
    /\ hist' = [hist EXCEPT !.train_phases = @ + 1,
                            !.steps_at_train_end = total_num_steps]
    /\ UNCHANGED <<args, impl, fs, error, env, agent, i, total_num_steps,
                   train_sum_returns, train_num_episodes, train_step_count,
                   train_step_length, train_episode_return, train_average_return,
                   eval_step_length, eval_episode_return, eval_average_return,
                   writer, report, saved>>

\* line 102 false, then lines 124-127: the evaluation phase begins
EvalBegin ==
    /\ pc = "while"
    /\ ~TrainContinues
    /\ agent' = [agent EXCEPT !.eval_mode = TRUE]
    /\ eval_sum_returns' = 0
    /\ eval_num_episodes' = 0
    /\ eval_k' = 0
    /\ pc' = "eval"
    /\ hist' = [hist EXCEPT !.train_phases = @ + 1,
                            !.steps_at_train_end = total_num_steps]
    /\ UNCHANGED <<args, impl, fs, error, env, i, total_num_steps, train_sum_returns,
                   train_num_episodes, train_step_count, train_step_length,
                   train_episode_return, train_average_return, eval_step_length,
                   eval_episode_return, eval_average_return, writer, report, saved>>

\* lines 129-134 with total_num_steps += eval_step_length
EvalRolloutCountsSteps ==
    /\ pc = "eval"
    /\ eval_k < EvalEpisodes
    /\ ~RunRaises
    /\ LET result == AgentRun(agent, args.max_step)
       IN  /\ agent' = AgentAfterRun(agent)
           /\ eval_step_length' = result.step_length
           /\ eval_episode_return' = Rat(result.episode_return, 1)
           /\ eval_sum_returns' = eval_sum_returns + result.episode_return
           /\ eval_num_episodes' = eval_num_episodes + 1
           /\ total_num_steps' = total_num_steps + result.step_length
           /\ hist' = [hist EXCEPT !.eval_returns = Append(@, result.episode_return)]
    /\ eval_k' = eval_k + 1
    /\ UNCHANGED <<args, impl, fs, pc, error, env, i,
                   train_sum_returns, train_num_episodes, train_step_count,
                   train_step_length, train_episode_return, train_average_return,
                   eval_average_return, writer, report, saved>>

\* lines 129-134: one turn of for _ in range(10)
EvalRollout ==
    /\ pc = "eval"
    /\ eval_k < EvalEpisodes
    /\ ~RunRaises
    /\ LET result == AgentRun(agent, args.max_step)
       IN  /\ agent' = AgentAfterRun(agent)
           /\ eval_step_length' = result.step_length
           /\ eval_episode_return' = Rat(result.episode_return, 1)
           /\ eval_sum_returns' = eval_sum_returns + result.episode_return
           /\ eval_num_episodes' = eval_num_episodes + 1
           /\ hist' = [hist EXCEPT !.eval_returns = Append(@, result.episode_return)]
    /\ eval_k' = eval_k + 1
    /\ UNCHANGED <<args, impl, fs, pc, error, env, i, total_num_steps,
                   train_sum_returns, train_num_episodes, train_step_count,
                   train_step_length, train_episode_return, train_average_return,
                   eval_average_return, writer, report, saved>>

\* lines 138-141: the metrics of one evaluation phase
EvalScalars(average, episode_return, step) ==
    IF args.tensorboard
      THEN <<Scalar("Eval/AverageReturns", average, step),
             Scalar("Eval/EpisodeReturns", episode_return, step)>>
      ELSE <<>>

\* line 129 exhausted, then lines 136-141
EvalEnd ==
    /\ pc = "eval"
    /\ eval_k >= EvalEpisodes
    /\ LET average == AverageReturn(eval_sum_returns, eval_num_episodes)
           scalars == EvalScalars(average, eval_episode_return, total_num_steps)
       IN  /\ eval_average_return' = average
           /\ writer' = writer \o Accepted(scalars)
           /\ ContinueOrRaise(SinkRaises(scalars), "SinkError", "report")
           /\ hist' = [hist EXCEPT !.eval_phases = @ + 1,
                                   !.faulted = SinkRaises(scalars)]
    /\ UNCHANGED <<args, impl, fs, env, agent, i, total_num_steps,
                   train_sum_returns, train_num_episodes, train_step_count,
                   train_step_length, train_episode_return, train_average_return,
                   eval_sum_returns, eval_num_episodes, eval_k, eval_step_length,
                   eval_episode_return, report, saved>>

\* lines 143-152: the progress report; line 147 reads train_average_return,
\* a name that is bound only by line 114, inside the training loop
Report ==
    /\ pc = "report"
    /\ IF train_average_return = Unbound
         THEN /\ Raise("UnboundLocalError")
              /\ report' = report
         ELSE /\ report' = [i |-> i, steps |-> total_num_steps,
                            episodes |-> train_num_episodes,
                            tr |-> Round2(train_average_return),
                            eval_episodes |-> eval_num_episodes,
                            er |-> Round2(eval_average_return)]
              /\ pc' = "save"
              /\ error' = error
    /\ UNCHANGED <<args, impl, fs, env, agent, locals, writer, saved, hist>>

\* line 155 as i % 20 == 0
SaveDueOffByOne == i % SavePeriod = 0

\* line 155 with the last iteration added
SaveDueOnLast == i + 1 = args.iterations \/ (i + 1) % SavePeriod = 0

\* line 155: if (i + 1) % 20 == 0
SaveDue == (i + 1) % SavePeriod = 0

\* lines 159-164 with the counter of the iteration on line 162
CkptPathWithIterationSteps ==
    [algo |-> args.algo, i |-> i, st |-> train_step_count,
     tr |-> Round2(train_average_return),
     er |-> Round2(eval_average_return)]

\* lines 159-164: the name of the checkpoint file
CkptPath == [algo |-> args.algo, i |-> i, st |-> total_num_steps,
             tr |-> Round2(train_average_return),
             er |-> Round2(eval_average_return)]

\* lines 155-166: the checkpoint of a due iteration; os.mkdir makes one
\* directory and needs its parent
SaveModel ==
    /\ pc = "save"
    /\ SaveDue
    /\ IF fs = "no_tests"
         THEN /\ Raise("FileNotFoundError")
              /\ UNCHANGED <<fs, saved, hist>>
         ELSE /\ fs' = "dir"
              /\ saved' = IF SaveRaises THEN saved ELSE Append(saved, CkptPath)
              /\ ContinueOrRaise(SaveRaises, "SinkError", "for")
              /\ hist' = [hist EXCEPT !.faulted = SaveRaises]
    /\ UNCHANGED <<args, impl, env, agent, locals, writer, report>>

\* line 155 false: the iteration ends without a checkpoint
SkipSave ==
    /\ pc = "save"
    /\ ~SaveDue
    /\ pc' = "for"
    /\ UNCHANGED <<args, impl, fs, error, env, agent, locals, writer, report, saved, hist>>

Next ==
    \/ Setup
    \/ ForNext
    \/ TrainRollout
    \/ RolloutRaises
    \/ EvalBegin
    \/ EvalRollout
    \/ EvalEnd
    \/ Report
    \/ SaveModel
    \/ SkipSave

Spec == Init /\ [][Next]_vars

\* main() is sequential: a step that can be taken is taken
FairSpec == Spec /\ WF_vars(Next)

----------------------------------------------------------------------------
(* Properties *)

\* the training loop of the current iteration has been left
LoopExited == pc \in {"eval", "report", "save"} \/ (pc = "while" /\ ~TrainContinues)

\* C1 as stated, for a phase that ran a rollout: when the training loop
\* exits, train_step_count is >= steps_per_iter and
\* < steps_per_iter + max_step.
C1_CounterAtExitBelowBudgetPlusMax ==
    (LoopExited /\ hist.train_rollouts > 0) =>
        /\ train_step_count >= args.steps_per_iter
        /\ train_step_count < args.steps_per_iter + args.max_step

\* C1 amended: when the training loop exits, train_step_count is
\* > steps_per_iter, and <= steps_per_iter + max_step whenever the phase ran
\* a rollout (the last rollout starts at a counter <= steps_per_iter and adds
\* at most max_step).
C1_CounterAtExit ==
    LoopExited =>
        /\ train_step_count > args.steps_per_iter
        /\ hist.train_rollouts > 0 =>
               train_step_count <= args.steps_per_iter + args.max_step

\* a phase of several rollouts that overshoots by a whole episode
C1_Witness ==
    /\ LoopExited
    /\ hist.train_rollouts >= 2
    /\ train_step_length = args.max_step
    /\ train_step_count = args.steps_per_iter + args.max_step

\* a training rollout takes place in this step
TrainRolloutStep == hist'.train_rollouts = hist.train_rollouts + 1

\* C2: a training rollout is started exactly when the counter is
\* <= steps_per_iter, the phase ends as soon as the counter exceeds it; with
\* steps_per_iter = 5000 and episodes of length 200 the phase runs 26
\* rollouts and its counter ends at 5200.  (A turn of the loop may instead
\* end the run with an exception of a collaborator.)
C2_RolloutWhileWithinBudget ==
    /\ [][/\ TrainRolloutStep =>
                pc = "while" /\ train_step_count <= args.steps_per_iter
          /\ (pc = "while" /\ train_step_count <= args.steps_per_iter) =>
                (TrainRolloutStep /\ pc' = "while") \/ pc' = "raised"
          /\ (pc = "while" /\ train_step_count > args.steps_per_iter) =>
                ~TrainRolloutStep /\ pc' = "eval"]_vars
    /\ [](  (args.steps_per_iter = 5000 /\ impl.lens = <<200>> /\ pc = "eval")
         => (hist.train_rollouts = 26 /\ train_step_count = 5200))

C2_Witness ==
    /\ pc = "eval"
    /\ args.steps_per_iter = 5000
    /\ impl.lens = <<200>>
    /\ hist.train_rollouts = 26
    /\ train_step_count = 5200

\* the iteration indices of the checkpoints written so far
SavedAt == {saved[k].i : k \in 1..Len(saved)}

\* C3: a checkpoint is written at the end of iteration i iff
\* (i + 1) mod 20 = 0, nowhere else, and at most once per iteration.
C3_CheckpointEveryTwentieth ==
    /\ [][/\ saved' # saved =>
                /\ pc = "save"
                /\ (i + 1) % 20 = 0
                /\ Len(saved') = Len(saved) + 1
                /\ SubSeq(saved', 1, Len(saved)) = saved
                /\ saved'[Len(saved')].i = i
          /\ (pc = "save" /\ pc' = "for") =>
                (saved' # saved <=> (i + 1) % 20 = 0)]_vars
    /\ [](/\ \A k \in 1..Len(saved) : (saved[k].i + 1) % 20 = 0
          /\ Cardinality(SavedAt) = Len(saved))

\* iteration 19 wrote a checkpoint, iteration 20 ended without one
C3_Witness ==
    /\ pc = "for"
    /\ i = 20
    /\ SavedAt = {19}

\* C4 as stated: a run with iterations = 39 that completes has written
\* checkpoints at the iteration indices 19 and 38 and at no other.
C4_CheckpointsAt19And38 ==
    (pc = "done" /\ args.iterations = 39) => SavedAt = {19, 38}

\* C4 amended: a run with iterations = 39 that completes has written one
\* checkpoint, at iteration index 19, and none at any other index (not at 0,
\* and not at 38, the last index: 39 mod 20 is 19).
C4_ThirtyNineIterations ==
    (pc = "done" /\ args.iterations = 39) => (SavedAt = {19} /\ Len(saved) = 1)

C4_Witness ==
    /\ pc = "done"
    /\ args.iterations = 39
    /\ i = 38
    /\ SavedAt = {19}

\* the run has ended: main() returned or an exception left it
Finished ==
    /\ pc = "done"
    /\ hist.train_phases = args.iterations
    /\ hist.eval_phases = args.iterations

C6_AverageOfNoEpisodesIsZero ==
    /\ (pc = "report" /\ train_num_episodes = 0) => train_average_return = Zero
    /\ (pc = "report" /\ eval_num_episodes = 0) => eval_average_return = Zero
    /\ error # "UnboundLocalError"

\* C7: train_num_episodes and total_num_steps never decrease and are not
\* reset at an iteration boundary or at the start of an evaluation phase;
\* train_step_count and the evaluation sum and count are.
C7_CumulativeCountersNeverReset ==
    [][/\ total_num_steps' >= total_num_steps
       /\ train_num_episodes' >= train_num_episodes
       /\ i' # i =>
            /\ train_step_count' = 0
            /\ total_num_steps' = total_num_steps
            /\ train_num_episodes' = train_num_episodes
       /\ (pc = "while" /\ pc' = "eval") =>
            /\ eval_sum_returns' = 0
            /\ eval_num_episodes' = 0
            /\ total_num_steps' = total_num_steps
            /\ train_num_episodes' = train_num_episodes]_vars

\* a later iteration starts with the counters of the earlier ones
C7_Witness ==
    /\ pc = "while"
    /\ i = 1
    /\ train_step_count = 0
    /\ total_num_steps >= 3
    /\ train_num_episodes >= 2
    /\ eval_num_episodes = 10

RECURSIVE SumSeq(_)
SumSeq(q) == IF q = <<>> THEN 0 ELSE Head(q) + SumSeq(Tail(q))

\* C8: at the end of every evaluation phase eval_num_episodes = 10 and
\* eval_sum_returns is the sum of the returns of that iteration's 10
\* evaluation rollouts alone, so the evaluation average is their mean; the
\* returns 10, 20, 10, 20, ... give 15.0.
C8_EvalStatisticsOfThisIteration ==
    /\ (pc = "eval" /\ eval_k = 10) \/ pc \in {"report", "save"} =>
          /\ eval_num_episodes = 10
          /\ Len(hist.eval_returns) = 10
          /\ eval_sum_returns = SumSeq(hist.eval_returns)
    /\ pc \in {"report", "save"} =>
          /\ eval_average_return.d * SumSeq(hist.eval_returns) = eval_average_return.n * 10
          /\ eval_average_return.d > 0
          /\ hist.eval_returns = <<10, 20, 10, 20, 10, 20, 10, 20, 10, 20>> =>
                eval_average_return = [n |-> 15, d |-> 1]

\* the second evaluation phase, after a first one with another sum
C8_Witness ==
    /\ pc = "report"
    /\ i = 1
    /\ hist.eval_returns = <<10, 20, 10, 20, 10, 20, 10, 20, 10, 20>>
    /\ eval_average_return = [n |-> 15, d |-> 1]
    /\ report.i = 0

\* C9: every training rollout is invoked with the mode flag set to training,
\* every evaluation rollout with the flag set to evaluation, and the flag
\* changes only at phase boundaries: where the training loop is left, and at
\* the first rollout of a training phase.
C9_ModeProtocol ==
    [][/\ agent'.calls # agent.calls =>
            agent'.run_mode = (IF pc = "while" THEN "train" ELSE "eval")
       /\ (agent.built /\ agent'.eval_mode # agent.eval_mode) =>
            \/ pc = "while" /\ pc' = "eval" /\ agent'.eval_mode
            \/ pc = "while" /\ hist.train_rollouts = 0 /\ ~agent'.eval_mode
       /\ pc = "eval" => agent.eval_mode
       /\ (pc = "while" /\ hist.train_rollouts > 0) => ~agent.eval_mode]_vars

\* a training rollout of the second iteration, after an evaluation phase
C9_Witness ==
    /\ pc = "while"
    /\ i = 1
    /\ hist.train_rollouts = 1
    /\ agent.run_mode = "train"
    /\ ~agent.eval_mode
    /\ agent.calls > 10

\* the scalars that this step hands to the writer
NewScalars == SubSeq(writer', Len(writer) + 1, Len(writer'))

\* C10: an evaluation phase leaves total_num_steps, train_step_count,
\* train_sum_returns and train_num_episodes unchanged, and its metrics are
\* keyed by the value total_num_steps had when the training phase ended.
C10_EvalLeavesTrainingCounters ==
    [][(pc = "eval" \/ pc' = "eval") =>
          /\ total_num_steps' = total_num_steps
          /\ train_step_count' = train_step_count
          /\ train_sum_returns' = train_sum_returns
          /\ train_num_episodes' = train_num_episodes
          /\ pc = "eval" =>
                \A k \in 1..Len(NewScalars) :
                    NewScalars[k].step = hist.steps_at_train_end]_vars

\* evaluation episodes with steps of their own, and their metrics
C10_Witness ==
    /\ pc = "report"
    /\ i = 1
    /\ eval_step_length > 0
    /\ Len(writer) > 0
    /\ writer[Len(writer)].tag = "Eval/EpisodeReturns"
    /\ writer[Len(writer)].step = hist.steps_at_train_end
    /\ hist.steps_at_train_end = total_num_steps
    /\ total_num_steps > 0

\* the places of the scalars of one series among those of this step
NewWithTag(tag) == {k \in 1..Len(NewScalars) : NewScalars[k].tag = tag}

\* C11: with logging enabled, every completed training rollout is followed,
\* before the next rollout starts, by exactly one training-average metric and
\* one episode-return metric, both keyed by the total_num_steps that includes
\* the rollout's step length; the episode-return metric carries the rollout's
\* own return.  (A step in which the writer raises is the matter of C13.)
C11_MetricsAfterEveryTrainingRollout ==
    [][/\ (TrainRolloutStep /\ args.tensorboard /\ pc' # "raised") =>
            LET result == AgentRun(agent, args.max_step)
            IN  /\ Cardinality(NewWithTag("Train/AverageReturns")) = 1
                /\ Cardinality(NewWithTag("Train/EpisodeReturns")) = 1
                /\ \A k \in 1..Len(NewScalars) :
                       /\ NewScalars[k].step = total_num_steps'
                       /\ NewScalars[k].step = total_num_steps + result.step_length
                /\ \A k \in NewWithTag("Train/EpisodeReturns") :
                       NewScalars[k].value = [n |-> result.episode_return, d |-> 1]
       /\ (NewWithTag("Train/AverageReturns") # {}
              \/ NewWithTag("Train/EpisodeReturns") # {}) => TrainRolloutStep
       /\ ~args.tensorboard => writer' = <<>>]_vars

\* the second rollout of a phase has been logged, the third has not started
C11_Witness ==
    /\ pc = "while"
    /\ args.tensorboard
    /\ hist.train_rollouts = 2
    /\ train_step_length > 0
    /\ Len(writer) >= 4
    /\ writer[Len(writer) - 1].tag = "Train/AverageReturns"
    /\ writer[Len(writer)].tag = "Train/EpisodeReturns"
    /\ writer[Len(writer)].step = total_num_steps
    /\ writer[Len(writer)].value = train_episode_return
    /\ writer[Len(writer)].value # writer[Len(writer) - 1].value

\* x is the quotient sum / count
IsQuotient(x, sum, count) == x.d > 0 /\ x.d * sum = x.n * count

\* C12: the training average emitted after each training rollout is the sum
\* of the returns of all training rollouts since the start of the run over
\* their number, not restarted per iteration; when the first rollout of the
\* first iteration returns (200, 150.0) the average reported is 150.0.
C12_TrainingAverageIsCumulative ==
    [][TrainRolloutStep =>
          LET returns == hist'.train_returns
              first == AgentRun(agent, args.max_step)
          IN  /\ IsQuotient(train_average_return', SumSeq(returns), Len(returns))
              /\ \A k \in NewWithTag("Train/AverageReturns") :
                     /\ NewScalars[k].value = train_average_return'
                     /\ (/\ agent.calls = 0
                         /\ first.step_length = 200
                         /\ first.episode_return = 150) =>
                            NewScalars[k].value = [n |-> 150, d |-> 1]]_vars

\* an average of the second iteration that covers the rollouts of the first
C12_Witness ==
    /\ pc = "while"
    /\ i = 1
    /\ args.tensorboard
    /\ hist.train_rollouts = 1
    /\ Len(hist.train_returns) >= 3
    /\ train_average_return # train_episode_return
    /\ IsQuotient(train_average_return, SumSeq(hist.train_returns), Len(hist.train_returns))
    /\ \E k \in 1..Len(writer) :
           /\ writer[k].tag = "Train/AverageReturns"
           /\ writer[k].step = total_num_steps
           /\ writer[k].value = train_average_return

\* the first rollout of a run returned (200, 150.0) and was logged
C12_FirstRolloutLogged ==
    /\ train_num_episodes = 1
    /\ train_step_length = 200
    /\ Len(writer) > 0
    /\ writer[1] = Scalar("Train/AverageReturns", [n |-> 150, d |-> 1], 200)

\* C13: if an agent rollout, a metric emission or a checkpoint write raises,
\* the run ends at that point: the failed call is not repeated, and no later
\* rollout, metric emission, progress report or checkpoint write occurs.
C13_ExceptionEndsRun ==
    /\ [](hist.faulted =>
            /\ pc = "raised"
            /\ error \in {"AgentError", "SinkError"}
            /\ impl.fault.op = "run" => agent.calls = impl.fault.at
            /\ impl.fault.op = "add_scalar" => Len(writer) = impl.fault.at
            /\ impl.fault.op = "save" => Len(saved) = impl.fault.at)
    /\ [][pc # "raised"]_vars

\* the writer took the average of a rollout and raised on its return
C13_Witness ==
    /\ pc = "raised"
    /\ error = "SinkError"
    /\ hist.faulted
    /\ i = 1
    /\ Len(writer) = impl.fault.at
    /\ writer[Len(writer)].tag = "Train/AverageReturns"
    /\ writer[Len(writer)].step = total_num_steps

\* a rollout of an evaluation phase raised
C13_RolloutRaised ==
    /\ pc = "raised"
    /\ error = "AgentError"
    /\ eval_k > 0
    /\ eval_k < 10

\* the second checkpoint write raised
C13_SaveRaised ==
    /\ pc = "raised"
    /\ error = "SinkError"
    /\ i = 39
    /\ Len(saved) = 1

\* C14: whatever the file system holds at the start, at each checkpoint
\* iteration the destination directory is created if it is absent, the
\* creation does not fail, and the checkpoint is written with the directory
\* in place.
C14_MissingDirectoryRecovered ==
    /\ error # "FileNotFoundError"
    /\ Len(saved) > 0 => fs = "dir"
    /\ (pc = "for" /\ i >= 0 /\ (i + 1) % 20 = 0) => (fs = "dir" /\ i \in SavedAt)

\* h hundredths is a nearest two-decimal value of sum / count
IsRounded(h, sum, count) == 2 * Abs(100 * sum - h * count) <= count

\* C15: the checkpoint written at iteration i is named with i, with the
\* total_num_steps at the end of iteration i's training phase, with the
\* cumulative training average after the last training rollout of iteration
\* i, and with the average of iteration i's own 10 evaluation rollouts (the
\* two averages to two decimals).
C15_CheckpointNamedAtBoundary ==
    [][saved' # saved =>
          LET name == saved'[Len(saved')]
          IN  /\ name.i = i
              /\ name.st = hist.steps_at_train_end
              /\ name.st = SumSeq(hist.train_lengths)
              /\ IsRounded(name.tr, SumSeq(hist.train_returns), Len(hist.train_returns))
              /\ Len(hist.eval_returns) = 10
              /\ IsRounded(name.er, SumSeq(hist.eval_returns), 10)]_vars

\* two checkpoints of one run whose statistics differ
C15_Witness ==
    /\ pc = "for"
    /\ i = 39
    /\ Len(saved) = 2
    /\ saved[2].i = 39
    /\ saved[2].st = total_num_steps
    /\ saved[1].st < saved[2].st
    /\ saved[1].tr # saved[2].tr
    /\ saved[1].er # saved[2].er
    /\ IsRounded(saved[2].er, SumSeq(hist.eval_returns), 10)

\* C16: an unknown algorithm name is rejected before any resource is
\* allocated: before the environment is created or seeded, with no agent
\* constructed and no rollout, metric emission or checkpoint write.
C16_UnknownAlgorithmRejectedFirst ==
    (args.algo \notin KnownAlgos /\ pc # "start") =>
        /\ pc = "raised"
        /\ env = "none"
        /\ ~agent.built
        /\ agent.calls = 0
        /\ writer = <<>>
        /\ saved = <<>>

\* C18: with steps_per_iter >= 0 every training phase runs at least one
\* rollout; total_num_steps is the sum of the step lengths of all training
\* rollouts so far, and after k completed iterations it is
\* >= k * (steps_per_iter + 1), with train_num_episodes >= k.
C18_EveryPhaseRunsARollout ==
    args.steps_per_iter >= 0 =>
        /\ LoopExited => hist.train_rollouts >= 1
        /\ pc = "eval" => hist.train_rollouts >= 1
        /\ total_num_steps = SumSeq(hist.train_lengths)
        /\ train_num_episodes = Len(hist.train_lengths)
        /\ total_num_steps >= hist.train_phases * (args.steps_per_iter + 1)
        /\ train_num_episodes >= hist.train_phases
        /\ pc \in {"for", "done"} =>
              /\ total_num_steps >= (i + 1) * (args.steps_per_iter + 1)
              /\ train_num_episodes >= i + 1

\* two iterations done, with episodes of length 0 among the rollouts
C18_Witness ==
    /\ pc = "for"
    /\ i = 1
    /\ args.steps_per_iter = 2
    /\ hist.zero_length
    /\ hist.train_phases = 2
    /\ total_num_steps >= 6
    /\ train_num_episodes >= 4
    /\ total_num_steps = SumSeq(hist.train_lengths)

\* C19: the step keys of the metrics handed to the writer never decrease in
\* emission order, across the training and evaluation series and across
\* iterations; within a training series they increase strictly when no
\* training episode has step length 0.
C19_MetricKeysNeverDecrease ==
    [][/\ SubSeq(writer', 1, Len(writer)) = writer
       /\ \A k \in 1..Len(NewScalars) :
            /\ Len(writer) > 0 => writer[Len(writer)].step <= NewScalars[k].step
            /\ k > 1 => NewScalars[k - 1].step <= NewScalars[k].step
            /\ (/\ ~hist'.zero_length
                /\ NewScalars[k].tag \in {"Train/AverageReturns", "Train/EpisodeReturns"}) =>
                   \A j \in 1..Len(writer) :
                       writer[j].tag = NewScalars[k].tag =>
                           writer[j].step < NewScalars[k].step]_vars

\* training metrics of the second iteration, after the evaluation metrics of
\* the first
C19_Witness ==
    /\ pc = "while"
    /\ i = 1
    /\ hist.train_rollouts = 1
    /\ ~hist.zero_length
    /\ Len(writer) >= 6
    /\ writer[Len(writer)].tag = "Train/EpisodeReturns"
    /\ writer[Len(writer)].step = total_num_steps
    /\ \E j \in 1..Len(writer) :
           /\ writer[j].tag = "Eval/EpisodeReturns"
           /\ writer[j].step < total_num_steps

====
